---- MODULE Spec2Model ----
(***************************************************************************)
(* parse-torrent-file (src/index.js): decodeTorrentFile turns a bdecoded   *)
(* torrent dictionary into the parsed Metadata object, encodeTorrentFile   *)
(* turns a parsed object back into the dictionary handed to bencode.       *)
(*                                                                         *)
(* Representation.  A JavaScript property that may be undefined is a       *)
(* sequence of length 0 (undefined) or 1 (the value).  A Buffer holding    *)
(* text is the record [utf8 |-> s]; a JavaScript string is a TLA+ string.  *)
(* The pieces Buffer is a sequence of byte values.  A Date is the record   *)
(* [hi, lo, ms] standing for (hi * 2^16 + lo) seconds and ms milliseconds, *)
(* so that epoch seconds of 2^31 and more are representable.               *)
(***************************************************************************)
EXTENDS Integers, Sequences, FiniteSets, TLC

VARIABLES torrent, parsed, out, reparsed, err, pc, encodes

vars == <<torrent, parsed, out, reparsed, err, pc, encodes>>

----------------------------------------------------------------------------
(* Bounds of the model *)

MaxLen == 2          \* largest file length drawn
MaxFiles == 2        \* most entries of info.files
MaxPieceLen == 3     \* largest 'piece length' drawn
MaxTiers == 2        \* most tiers of announce-list
MaxPieces == 2       \* most 20-byte blocks in info.pieces
MaxEncodes == 2      \* encode calls on one parsed object

(* Program constants *)

HashLen == 20        \* stride of splitPieces
Replacement == 65533 \* U+FFFD, produced by Buffer.toString('utf8')

----------------------------------------------------------------------------
(* JavaScript values *)

Undefined == <<>>
Some(v) == <<v>>
Has(o) == o # <<>>
Val(o) == o[1]

Buf(s) == [utf8 |-> s]
toString(b) == b.utf8
NewBuffer(s) == [utf8 |-> s]

\* typeof x === 'number' for a property holding a number or nothing
IsNumber(o) == Has(o)

\* !!x for a property holding a number
TruthyNumber(o) == Has(o) /\ Val(o) # 0

\* !!x for a property holding an object (Buffer, array, dictionary)
TruthyObject(o) == Has(o)

\* !!x for a property holding a string
TruthyString(o) == Has(o) /\ Val(o) # ""

RECURSIVE Flatten(_)
Flatten(lists) ==
  IF lists = <<>> THEN <<>> ELSE Head(lists) \o Flatten(Tail(lists))

SeqsUpTo(S, n) == UNION {[1..k -> S] : k \in 0..n}

Min(S) == CHOOSE x \in S : \A y \in S : x <= y

----------------------------------------------------------------------------
(* bencode and sha1 (external): the canonical encoding lists the present   *)
(* keys in sorted order with their values; sha1 is collision free.         *)

BencodeFile(f) ==
  (IF Has(f.length) THEN << <<"length", Val(f.length)>> >> ELSE <<>>)
  \o (IF Has(f.path) THEN << <<"path", Val(f.path)>> >> ELSE <<>>)

BencodeInfo(info) ==
  (IF Has(info.files)
     THEN << <<"files", [i \in 1..Len(Val(info.files)) |->
                           BencodeFile(Val(info.files)[i])]>> >>
     ELSE <<>>)
  \o (IF Has(info.length) THEN << <<"length", Val(info.length)>> >> ELSE <<>>)
  \o (IF Has(info.name) THEN << <<"name", Val(info.name)>> >> ELSE <<>>)
  \o (IF Has(info.pieceLength)
        THEN << <<"piece length", Val(info.pieceLength)>> >> ELSE <<>>)
  \o (IF Has(info.pieces) THEN << <<"pieces", Val(info.pieces)>> >> ELSE <<>>)
  \o (IF Has(info.private) THEN << <<"private", Val(info.private)>> >> ELSE <<>>)

sha1(buffer) == [sha1of |-> buffer]

----------------------------------------------------------------------------
(* ensure and the sanity check shared by decode and encode *)

NoError == ""
TypeError == "TypeError"
MissingPrefix == "Torrent is missing required field: "

ensure(bool, fieldName) == IF ~bool THEN MissingPrefix \o fieldName ELSE NoError

\* (variant: the path of an entry is not checked)
FilesCheck_LengthOnly(files) ==
  IF \E i \in 1..Len(files) : ~IsNumber(files[i].length)
    THEN ensure(FALSE, "info.files[0].length")
    ELSE NoError

\* the forEach over info.files: the first ensure that throws ends it
FilesCheck(files) ==
  LET bad == {i \in 1..Len(files) :
                ensure(IsNumber(files[i].length), "info.files[0].length") # NoError
                \/ ensure(TruthyObject(files[i].path), "info.files[0].path") # NoError}
  IN IF bad = {} THEN NoError
     ELSE LET file == files[Min(bad)]
          IN IF ensure(IsNumber(file.length), "info.files[0].length") # NoError
               THEN ensure(IsNumber(file.length), "info.files[0].length")
               ELSE ensure(TruthyObject(file.path), "info.files[0].path")

SanityCheck(infoOpt) ==
  IF ensure(TruthyObject(infoOpt), "info") # NoError
    THEN ensure(TruthyObject(infoOpt), "info")
  ELSE LET info == Val(infoOpt) IN
  IF ensure(TruthyObject(info.name), "info.name") # NoError
    THEN ensure(TruthyObject(info.name), "info.name")
  ELSE IF ensure(TruthyNumber(info.pieceLength), "info['piece length']") # NoError
    THEN ensure(TruthyNumber(info.pieceLength), "info['piece length']")
  ELSE IF ensure(TruthyObject(info.pieces), "info.pieces") # NoError
    THEN ensure(TruthyObject(info.pieces), "info.pieces")
  ELSE IF TruthyObject(info.files)
    THEN FilesCheck(Val(info.files))
    ELSE ensure(IsNumber(info.length), "info.length")

----------------------------------------------------------------------------
(* Buffer.toString(encoding) on the pieces buffer, and splitPieces *)

\* result.encoding.toLowerCase().replace('-', '')
NormalizeEncoding(e) ==
  CASE e = "UTF-8" -> "utf8"
    [] e = "utf-8" -> "utf8"
    [] e = "binary" -> "binary"
    [] OTHER -> e

\* utf8 decoding of one- and two-byte sequences; a byte that starts no
\* well formed sequence becomes U+FFFD
RECURSIVE Utf8Decode(_)
Utf8Decode(bytes) ==
  IF bytes = <<>> THEN <<>>
  ELSE IF bytes[1] < 128
    THEN <<bytes[1]>> \o Utf8Decode(Tail(bytes))
  ELSE IF bytes[1] \in 194..223 /\ Len(bytes) >= 2 /\ bytes[2] \in 128..191
    THEN <<(bytes[1] - 192) * 64 + (bytes[2] - 128)>>
         \o Utf8Decode(SubSeq(bytes, 3, Len(bytes)))
  ELSE <<Replacement>> \o Utf8Decode(Tail(bytes))

\* pieceBuffer.toString(encoding): the string as a sequence of char codes
BufferToString(bytes, encoding) ==
  IF encoding = "utf8" THEN Utf8Decode(bytes) ELSE bytes

\* String.prototype.toString ignores its argument
StringToString(str, arg) == str

\* str.slice(from, to) with 0 <= from <= to
StringSlice(str, from, to) ==
  SubSeq(str, from + 1, IF to < Len(str) THEN to ELSE Len(str))

RECURSIVE SplitFrom(_, _)
SplitFrom(hashString, i) ==
  IF i < Len(hashString)
    THEN <<StringToString(StringSlice(hashString, i, i + HashLen), "hex")>>
         \o SplitFrom(hashString, i + HashLen)
    ELSE <<>>

splitPieces(pieceBuffer, encoding) ==
  SplitFrom(BufferToString(pieceBuffer, encoding), 0)

----------------------------------------------------------------------------
(* decodeTorrentFile *)

\* (variant: the accumulator is dropped)
sumLength_NoAccumulate(sum, file) == Val(file.length)

sumLength(sum, file) == sum + Val(file.length)

\* list.reduce(sumLength, acc)
RECURSIVE ReduceSumLength(_, _)
ReduceSumLength(list, acc) ==
  IF list = <<>> THEN acc
  ELSE ReduceSumLength(Tail(list), sumLength(acc, Head(list)))

\* new Date(seconds * 1000)
DateOfSeconds(sec) == [hi |-> sec \div 65536, lo |-> sec % 65536, ms |-> 0]

\* the url-list normalisation, which is written back into the input
\* (a url-list is [isBuffer, items]: a lone Buffer is its own single item)
NormalizeUrlList(urlList) ==
  IF Has(urlList) /\ Val(urlList).isBuffer
    THEN Some([isBuffer |-> FALSE,
               items |-> IF Val(urlList).items[1].utf8 # ""
                           THEN <<Val(urlList).items[1]>> ELSE <<>>])
    ELSE urlList

\* path.join(path.sep, parts...).slice(1): empty parts vanish
PathJoin(parts) == SelectSeq(parts, LAMBDA p : p # "")

\* the properties the files.map callback reads, of an info.files entry and
\* of the info dictionary standing in as the only file
FileOfEntry(f) == [length |-> f.length, path |-> f.path, name |-> Undefined]
FileOfInfo(info) == [length |-> info.length, path |-> Undefined, name |-> info.name]

FileEntry(files, i, resultName) ==
  LET file == files[i]
      parts == <<IF TruthyObject(file.name) THEN toString(Val(file.name))
                                            ELSE resultName>>
               \o (IF TruthyObject(file.path)
                     THEN [k \in 1..Len(Val(file.path)) |->
                             toString(Val(file.path)[k])]
                     ELSE <<>>)
  IN [path |-> PathJoin(parts),
      name |-> parts[Len(parts)],
      length |-> Val(file.length),
      offset |-> ReduceSumLength(SubSeq(files, 1, i - 1), 0)]

\* ((lastFile.offset + lastFile.length) % result.pieceLength) || result.pieceLength
\* (variant: without the || result.pieceLength)
LastPieceLength_NoFallback(lastFile, pieceLength) ==
  (lastFile.offset + lastFile.length) % pieceLength

LastPieceLength(lastFile, pieceLength) ==
  IF (lastFile.offset + lastFile.length) % pieceLength # 0
    THEN (lastFile.offset + lastFile.length) % pieceLength
    ELSE pieceLength

\* (variant: announce is not consulted when announce-list is missing)
AnnounceOf_NoFallback(t) ==
  IF TruthyObject(t.announceList) THEN Val(t.announceList) ELSE <<>>

AnnounceOf(t) ==
  IF TruthyObject(t.announceList) THEN Val(t.announceList)
  ELSE IF TruthyObject(t.announce) THEN <<<<Val(t.announce)>>>>
  ELSE <<>>

\* the input dictionary as decode leaves it
DecodeInput(t) ==
  IF SanityCheck(t.info) # NoError THEN t
  ELSE [t EXCEPT !.urlList = NormalizeUrlList(t.urlList)]

\* [err, result]: the exception thrown, or the object returned
decodeTorrentFile(t) ==
  IF SanityCheck(t.info) # NoError
    THEN [err |-> SanityCheck(t.info), result |-> Undefined]
  ELSE
  LET info == Val(t.info)
      infoBuffer == BencodeInfo(info)
      name == toString(Val(info.name))
      encoding == IF TruthyObject(t.encoding) THEN toString(Val(t.encoding))
                                              ELSE "UTF-8"
      announce == AnnounceOf(t)
      announceList == [i \in 1..Len(announce) |->
                         [j \in 1..Len(announce[i]) |-> toString(announce[i][j])]]
      urls == NormalizeUrlList(t.urlList)
      files == IF TruthyObject(info.files)
                 THEN [i \in 1..Len(Val(info.files)) |->
                         FileOfEntry(Val(info.files)[i])]
                 ELSE <<FileOfInfo(info)>>
      resultFiles == [i \in 1..Len(files) |-> FileEntry(files, i, name)]
  IN
  IF resultFiles = <<>>
    THEN [err |-> TypeError, result |-> Undefined]   \* lastFile is undefined
  ELSE
  LET lastFile == resultFiles[Len(resultFiles)]
      pieceLength == Val(info.pieceLength)
  IN [err |-> NoError,
      result |-> Some(
        [info |-> t.info,
         infoBuffer |-> infoBuffer,
         infoHash |-> sha1(infoBuffer),
         name |-> name,
         private |-> Some(IF Has(info.private) THEN Val(info.private) # 0
                                               ELSE FALSE),
         publisher |-> IF TruthyObject(t.publisher)
                         THEN Some(toString(Val(t.publisher))) ELSE Undefined,
         publisherUrl |-> IF TruthyObject(t.publisherUrl)
                            THEN Some(toString(Val(t.publisherUrl))) ELSE Undefined,
         creator |-> IF TruthyObject(t.createdBy)
                       THEN Some(toString(Val(t.createdBy))) ELSE Undefined,
         created |-> IF TruthyNumber(t.creationDate)
                       THEN Some(DateOfSeconds(Val(t.creationDate))) ELSE Undefined,
         encoding |-> Some(encoding),
         comment |-> IF Has(t.comment)
                       THEN Some(toString(Val(t.comment))) ELSE Undefined,
         announceList |-> Some(announceList),
         announce |-> Some(Flatten(announceList)),
         urlList |-> IF Has(urls)
                       THEN [k \in 1..Len(Val(urls).items) |->
                               toString(Val(urls).items[k])]
                       ELSE <<>>,
         files |-> resultFiles,
         length |-> ReduceSumLength(files, 0),
         pieceLength |-> pieceLength,
         lastPieceLength |-> LastPieceLength(lastFile, pieceLength),
         pieces |-> splitPieces(Val(info.pieces), NormalizeEncoding(encoding))])]

----------------------------------------------------------------------------
(* encodeTorrentFile *)

\* (parsed.created.getTime() / 1000) | 0: the quotient is truncated toward
\* zero and wrapped into 32 signed bits
Int32OfSeconds(date) ==
  LET up == IF date.hi < 0 /\ date.ms > 0 THEN 1 ELSE 0    \* toward zero
      lo == (date.lo + up) % 65536
      hi == date.hi + ((date.lo + up) \div 65536)
      hi32 == ((hi + 32768) % 65536) - 32768
  IN hi32 * 65536 + lo

\* (variant: parsed.announce is not consulted)
FirstAnnounce_None(p) == Undefined

\* the first assignment of torrent.announce
FirstAnnounce(p) ==
  IF Has(p.announce) /\ Len(Val(p.announce)) > 0 /\ Val(p.announce)[1] # ""
    THEN Some(NewBuffer(Val(p.announce)[1]))
    ELSE Undefined

\* the announce-list map, which also fills in a missing torrent.announce
AnnounceKey(p) ==
  IF Has(FirstAnnounce(p)) THEN FirstAnnounce(p)
  ELSE IF Has(p.announceList) /\ Flatten(Val(p.announceList)) # <<>>
    THEN Some(NewBuffer(Flatten(Val(p.announceList))[1]))
  ELSE Undefined

AnnounceListKey(p) ==
  IF Has(p.announceList)
    THEN Some([i \in 1..Len(Val(p.announceList)) |->
                 [j \in 1..Len(Val(p.announceList)[i]) |->
                    NewBuffer(Val(p.announceList)[i][j])]])
    ELSE Undefined

BufferIfSet(str) == IF TruthyString(str) THEN Some(NewBuffer(Val(str))) ELSE Undefined

\* parsed.created after the call
CreatedAfter(p, now) == IF ~Has(p.created) THEN Some(now) ELSE p.created

\* parsed.info after the call: the dictionary is shared with the output
InfoAfter(p) ==
  IF Has(p.private)
    THEN Some([Val(p.info) EXCEPT !.private = Some(IF Val(p.private) THEN 1 ELSE 0)])
    ELSE p.info

\* [err, result]: the exception thrown, or the dictionary given to bencode
encodeTorrentFile(p, now) ==
  IF SanityCheck(p.info) # NoError
    THEN [err |-> SanityCheck(p.info), result |-> Undefined]
  ELSE
  [err |-> NoError,
   result |-> Some(
     [info |-> InfoAfter(p),
      announce |-> AnnounceKey(p),
      announceList |-> AnnounceListKey(p),
      comment |-> BufferIfSet(p.comment),
      encoding |-> BufferIfSet(p.encoding),
      publisher |-> BufferIfSet(p.publisher),
      publisherUrl |-> BufferIfSet(p.publisherUrl),
      createdBy |-> BufferIfSet(p.creator),
      creationDate |-> Some(Int32OfSeconds(Val(CreatedAfter(p, now)))),
      urlList |-> Undefined])]

----------------------------------------------------------------------------
(* The inputs: torrent dictionaries as bencode.decode returns them *)

Urls == {Buf("u1"), Buf("u2")}

AsciiBlock == [i \in 1..HashLen |-> 97]
PairBlock == [i \in 1..HashLen |-> IF i % 2 = 1 THEN 195 ELSE 169]
MixedBlock == [i \in 1..HashLen |-> IF i > 4 THEN 97 ELSE IF i % 2 = 1 THEN 195 ELSE 169]
Blocks == {AsciiBlock, PairBlock, MixedBlock}
PieceBuffers == {Flatten(blocks) : blocks \in SeqsUpTo(Blocks, MaxPieces)}

\* a length that is no number (undefined), 0, or the largest length
OptLengths == {Undefined, Some(0), Some(MaxLen)}
Paths == {Undefined, Some(<<>>), Some(<<Buf("p")>>)}
FileDicts == [length : OptLengths, path : Paths]
ValidFileDicts == [length : {Some(n) : n \in 0..MaxLen},
                   path : {Some(<<Buf("d"), Buf("p")>>)}]

\* the tiers: sequences of distinct urls
Tiers == {tier \in SeqsUpTo(Urls, Cardinality(Urls)) :
            \A i, j \in 1..Len(tier) : tier[i] = tier[j] => i = j}

BaseInfo ==
  [name |-> Some(Buf("a")), pieceLength |-> Some(2), pieces |-> Some(AsciiBlock),
   files |-> Undefined, length |-> Some(MaxLen), private |-> Undefined]

BaseTorrent ==
  [info |-> Some(BaseInfo), announce |-> Undefined, announceList |-> Undefined,
   encoding |-> Undefined, creationDate |-> Undefined, comment |-> Undefined,
   publisher |-> Undefined, publisherUrl |-> Undefined, createdBy |-> Undefined,
   urlList |-> Undefined]

\* single-file and multi-file layouts, as the fields (files, length)
Layouts(dicts, lengths) ==
  {<<Undefined, l>> : l \in lengths}
  \cup {<<Some(fs), Undefined>> : fs \in SeqsUpTo(dicts, MaxFiles)}

\* dictionaries with required fields missing, empty or of the wrong type
ValidationInputs ==
  {[BaseTorrent EXCEPT !.info = Undefined]}
  \cup {[BaseTorrent EXCEPT !.info = Some(
           [name |-> n, pieceLength |-> pl, pieces |-> ps,
            files |-> lay[1], length |-> lay[2], private |-> Undefined])] :
          n \in {Undefined, Some(Buf("")), Some(Buf("a"))},
          pl \in {Undefined, Some(0), Some(2)},
          ps \in {Undefined, Some(AsciiBlock)},
          lay \in Layouts(FileDicts, OptLengths)}

\* dictionaries that pass the sanity check, of every layout
LayoutInputs ==
  {[BaseTorrent EXCEPT !.info = Some(
      [BaseInfo EXCEPT !.pieceLength = Some(pl), !.files = lay[1],
                       !.length = lay[2], !.private = pr])] :
     pl \in 1..MaxPieceLen,
     lay \in Layouts(ValidFileDicts, {Some(n) : n \in 0..MaxLen}),
     pr \in {Undefined, Some(0), Some(1), Some(2)}}

TrackerInputs ==
  {[BaseTorrent EXCEPT !.announce = a, !.announceList = al] :
     a \in {Undefined} \cup {Some(u) : u \in Urls},
     al \in {Undefined}
            \cup {Some(tiers) : tiers \in SeqsUpTo(Tiers, MaxTiers)}}

PiecesInputs ==
  {[BaseTorrent EXCEPT !.info = Some([BaseInfo EXCEPT !.pieces = Some(ps)]),
                       !.encoding = e] :
     ps \in PieceBuffers,
     e \in {Undefined, Some(Buf("UTF-8")), Some(Buf("utf-8")), Some(Buf("binary"))}}

UrlLists ==
  {Undefined,
   Some([isBuffer |-> TRUE, items |-> <<Buf("")>>]),
   Some([isBuffer |-> TRUE, items |-> <<Buf("w1")>>]),
   Some([isBuffer |-> FALSE, items |-> <<Buf("w1"), Buf("w2")>>])}

ScalarInputs ==
  {[BaseTorrent EXCEPT !.creationDate = cd, !.comment = c, !.publisher = pb,
                       !.publisherUrl = pu, !.createdBy = cb, !.urlList = ul] :
     cd \in {Undefined, Some(0), Some(1), Some(-1), Some(2147483647)},
     c \in {Undefined, Some(Buf("")), Some(Buf("c"))},
     pb \in {Undefined, Some(Buf("pb"))},
     pu \in {Undefined, Some(Buf("pu"))},
     cb \in {Undefined, Some(Buf("cb"))},
     ul \in UrlLists}

Inputs ==
  ValidationInputs \cup LayoutInputs \cup TrackerInputs \cup PiecesInputs
  \cup ScalarInputs

\* dates a caller sets as parsed.created: -1.5 s, -1 s, 0 s, 1.5 s, 2^31 s
\* and 2^32 + 5 s
CreatedTimes ==
  {[hi |-> -1, lo |-> 65534, ms |-> 500], [hi |-> -1, lo |-> 65535, ms |-> 0],
   [hi |-> 0, lo |-> 0, ms |-> 0], [hi |-> 0, lo |-> 1, ms |-> 500],
   [hi |-> 32768, lo |-> 0, ms |-> 0], [hi |-> 65536, lo |-> 5, ms |-> 0]}

\* readings of the clock by new Date()
NowTimes == {[hi |-> 27000, lo |-> 7, ms |-> 250], [hi |-> 27000, lo |-> 8, ms |-> 0]}

\* tiers a caller assigns to parsed.announceList
CallerTiers == {<<>>, <<<<"u3">>>>, <<<<>>, <<"u3", "u1">>>>}

----------------------------------------------------------------------------
(* The calls *)

Init ==
  /\ torrent \in Inputs
  /\ parsed = Undefined
  /\ out = Undefined
  /\ reparsed = Undefined
  /\ err = NoError
  /\ pc = "start"
  /\ encodes = 0

\* parsed = decode(torrent)
Decode ==
  /\ pc = "start"
  /\ LET r == decodeTorrentFile(torrent)
     IN /\ parsed' = r.result
        /\ err' = r.err
        /\ pc' = IF r.err = NoError THEN "decoded" ELSE "failed"
  /\ torrent' = DecodeInput(torrent)
  /\ UNCHANGED <<out, reparsed, encodes>>

\* the caller overwrites derived fields of the parsed object
MutateDerived ==
  /\ pc = "decoded"
  /\ \E fields \in SUBSET {"files", "length", "pieces"} \ {{}} :
       parsed' = Some([Val(parsed) EXCEPT
         !.files = IF "files" \in fields THEN <<>> ELSE @,
         !.length = IF "length" \in fields THEN @ + 1 ELSE @,
         !.pieces = IF "pieces" \in fields THEN <<>> ELSE @])
  /\ pc' = "mutated"
  /\ UNCHANGED <<torrent, out, reparsed, err, encodes>>

\* the caller assigns parsed.announceList and leaves parsed.announce alone
SetAnnounceList ==
  /\ pc = "decoded"
  /\ \E tiers \in CallerTiers :
       parsed' = Some([Val(parsed) EXCEPT !.announceList = Some(tiers)])
  /\ pc' = "mutated"
  /\ UNCHANGED <<torrent, out, reparsed, err, encodes>>

\* the caller assigns parsed.created
SetCreated ==
  /\ pc = "decoded"
  /\ \E date \in CreatedTimes :
       parsed' = Some([Val(parsed) EXCEPT !.created = Some(date)])
  /\ pc' = "mutated"
  /\ UNCHANGED <<torrent, out, reparsed, err, encodes>>

\* out = encode(parsed); parsed.info is the dictionary the input holds
Encode ==
  /\ pc \in {"decoded", "mutated", "encoded"}
  /\ Has(parsed)
  /\ encodes < MaxEncodes
  /\ \E now \in NowTimes :
       LET p == Val(parsed)
           r == encodeTorrentFile(p, now)
       IN /\ out' = r.result
          /\ err' = r.err
          /\ pc' = IF r.err = NoError THEN "encoded" ELSE "failed"
          /\ parsed' = IF r.err = NoError
                         THEN Some([p EXCEPT !.created = CreatedAfter(p, now),
                                             !.info = InfoAfter(p)])
                         ELSE parsed
          /\ torrent' = IF r.err = NoError
                          THEN [torrent EXCEPT !.info = InfoAfter(p)]
                          ELSE torrent
  /\ encodes' = encodes + 1
  /\ UNCHANGED reparsed

\* encode({info: torrent.info}): encode called on an object not made by decode
EncodeObject ==
  /\ pc = "start"
  /\ \E now \in NowTimes :
       LET p == [info |-> torrent.info, announce |-> Undefined,
                 announceList |-> Undefined, comment |-> Undefined,
                 encoding |-> Undefined, publisher |-> Undefined,
                 publisherUrl |-> Undefined, creator |-> Undefined,
                 created |-> Undefined, private |-> Undefined]
           r == encodeTorrentFile(p, now)
       IN /\ out' = r.result
          /\ err' = r.err
          /\ pc' = IF r.err = NoError THEN "encoded" ELSE "failed"
  /\ encodes' = encodes + 1
  /\ UNCHANGED <<torrent, parsed, reparsed>>

\* reparsed = decode(bencode.decode(out))
Redecode ==
  /\ pc = "encoded"
  /\ LET r == decodeTorrentFile(Val(out))
     IN /\ reparsed' = r.result
        /\ err' = r.err
        /\ pc' = IF r.err = NoError THEN "redecoded" ELSE "failed"
  /\ UNCHANGED <<torrent, parsed, out, encodes>>

Next ==
  \/ Decode
  \/ MutateDerived
  \/ SetAnnounceList
  \/ SetCreated
  \/ Encode
  \/ EncodeObject
  \/ Redecode

Spec == Init /\ [][Next]_vars

----------------------------------------------------------------------------
(* Vocabulary of the properties *)

\* the first call on the input has returned or thrown, and nothing followed
FirstCallDone == pc \in {"decoded", "failed"} /\ encodes = 0
FirstEncodeDone ==
  pc \in {"encoded", "failed"} /\ encodes = 1 /\ parsed = Undefined
  /\ reparsed = Undefined

FilesPath(i, key) == "info.files[" \o ToString(i) \o "]." \o key

CheckedFields ==
  {"info", "info.name", "info['piece length']", "info.pieces", "info.length"}
  \cup {FilesPath(i, key) : i \in 0..MaxFiles, key \in {"length", "path"}}

IsMissingField(e) == e \in {MissingPrefix \o f : f \in CheckedFields}

RECURSIVE Sum(_)
Sum(numbers) == IF numbers = <<>> THEN 0 ELSE Head(numbers) + Sum(Tail(numbers))

\* the lengths of the files of a dictionary that passed the sanity check
InputLengths(info) ==
  IF Has(info.files)
    THEN [i \in 1..Len(Val(info.files)) |-> Val(Val(info.files)[i].length)]
    ELSE <<Val(info.length)>>

Decoded == pc = "decoded" /\ Has(parsed)

----------------------------------------------------------------------------
(* C1: after decode, any caller mutation of files, length or pieces, encode *)
(* and a second decode, the second infoHash equals the first.              *)
C1_HashStable ==
  (pc = "redecoded" /\ Has(parsed))
    => Val(reparsed).infoHash = Val(parsed).infoHash

(* C2: decode either throws the 'missing required field' error or returns  *)
(* a parsed object; a dictionary that passes the sanity check, an empty    *)
(* info.files included, decodes without any other failure.                 *)
C2_OnlyMissingField ==
  FirstCallDone =>
    /\ (pc = "failed" => IsMissingField(err))
    /\ (SanityCheck(torrent.info) = NoError => Decoded)

\* the field the check order reaches first, naming the entry's own index
FirstMissing(infoOpt) ==
  IF ~Has(infoOpt) THEN "info"
  ELSE LET info == Val(infoOpt) IN
  IF ~TruthyObject(info.name) THEN "info.name"
  ELSE IF ~TruthyNumber(info.pieceLength) THEN "info['piece length']"
  ELSE IF ~TruthyObject(info.pieces) THEN "info.pieces"
  ELSE IF Has(info.files)
    THEN LET files == Val(info.files)
             bad == {i \in 1..Len(files) :
                       ~IsNumber(files[i].length) \/ ~TruthyObject(files[i].path)}
         IN IF bad = {} THEN ""
            ELSE IF ~IsNumber(files[Min(bad)].length)
              THEN FilesPath(Min(bad) - 1, "length")
              ELSE FilesPath(Min(bad) - 1, "path")
  ELSE IF ~IsNumber(info.length) THEN "info.length"
  ELSE ""

(* C3: when the sanity check of decode or encode fails, the error names    *)
(* the first missing field in check order, and for a files entry at index  *)
(* i it names info.files[i].length or info.files[i].path.                  *)
C3_FirstMissingField ==
  ((FirstCallDone \/ FirstEncodeDone) /\ pc = "failed" /\ err # TypeError)
    => err = MissingPrefix \o FirstMissing(torrent.info)

(* C4: in the decoded object every file's offset is the sum of the lengths *)
(* of the files before it, and length is the sum of all file lengths.      *)
C4_PrefixSumLayout ==
  Decoded =>
    LET m == Val(parsed)
        lengths == InputLengths(Val(torrent.info))
    IN /\ Len(m.files) = Len(lengths)
       /\ \A i \in 1..Len(lengths) :
            /\ m.files[i].length = lengths[i]
            /\ m.files[i].offset = Sum(SubSeq(lengths, 1, i - 1))
       /\ m.files[1].offset = 0
       /\ m.length = Sum(lengths)

C4_Witness ==
  /\ Decoded
  /\ Len(Val(parsed).files) >= 2
  /\ Val(parsed).files[2].offset > 0
  /\ Val(parsed).length > Val(parsed).files[2].offset

(* C5: lastPieceLength is (offset + length of the last file) mod           *)
(* pieceLength, or pieceLength when that remainder is 0; it is never 0 and *)
(* lies in 1..pieceLength.                                                 *)
C5_LastPieceLength ==
  Decoded =>
    LET m == Val(parsed)
        last == m.files[Len(m.files)]
        remainder == (last.offset + last.length) % m.pieceLength
    IN /\ remainder # 0 => m.lastPieceLength = remainder
       /\ remainder = 0 => m.lastPieceLength = m.pieceLength
       /\ m.lastPieceLength >= 1
       /\ m.lastPieceLength <= m.pieceLength

C5_Witness ==
  /\ Decoded
  /\ Val(parsed).length > 0
  /\ Val(parsed).pieceLength > 1
  /\ Val(parsed).length % Val(parsed).pieceLength = 0
  /\ Val(parsed).lastPieceLength = Val(parsed).pieceLength

\* the position in the flattened list of the first url of tier i
TierStart(tiers, i) == Sum([k \in 1..(i - 1) |-> Len(tiers[k])])

(* C6: with announce-list absent and announce present announceList is one  *)
(* tier holding that url; with both absent it is empty; announce is always *)
(* the tiers of announceList concatenated in order.                        *)
C6_TrackerNormalization ==
  Decoded =>
    LET m == Val(parsed)
        tiers == Val(m.announceList)
        flat == Val(m.announce)
    IN /\ (~Has(torrent.announceList) /\ Has(torrent.announce))
            => tiers = <<<<toString(Val(torrent.announce))>>>>
       /\ (~Has(torrent.announceList) /\ ~Has(torrent.announce))
            => tiers = <<>>
       /\ Len(flat) = TierStart(tiers, Len(tiers) + 1)
       /\ \A i \in 1..Len(tiers) : \A j \in 1..Len(tiers[i]) :
            flat[TierStart(tiers, i) + j] = tiers[i][j]

C6_Witness ==
  /\ Decoded
  /\ ~Has(torrent.announceList)
  /\ Has(torrent.announce)
  /\ Len(Val(Val(parsed).announce)) = 1

\* the first url met when walking the tiers in order, as a wire byte-string
FirstWalked(tiers) ==
  IF Flatten(tiers) = <<>> THEN Undefined ELSE Some(NewBuffer(Flatten(tiers)[1]))

SameTiers(wire, tiers) ==
  /\ Len(wire) = Len(tiers)
  /\ \A i \in 1..Len(tiers) :
       /\ Len(wire[i]) = Len(tiers[i])
       /\ \A j \in 1..Len(tiers[i]) : toString(wire[i][j]) = tiers[i][j]

Encoded == pc = "encoded" /\ Has(parsed) /\ Has(out)

(* C7 as stated: for any parsed object with an announceList, one the       *)
(* caller changed without touching announce included, the encoded announce *)
(* is the first url of the first tier, or else the first url met walking   *)
(* the tiers, and announce-list holds the tiers and urls in order.         *)
C7_AnnounceFromList ==
  (Encoded /\ Has(Val(parsed).announceList)) =>
    LET tiers == Val(Val(parsed).announceList)
    IN /\ Flatten(tiers) # <<>> => Val(out).announce = FirstWalked(tiers)
       /\ Has(Val(out).announceList)
       /\ SameTiers(Val(Val(out).announceList), tiers)

(* C7 amended: the encoded announce is the first element of the parsed     *)
(* object's announce field when that element is a non-empty string, and    *)
(* otherwise the first url met walking announceList; when announce is the  *)
(* flattening of announceList this is the first url met walking the tiers; *)
(* announce-list holds the tiers and urls of announceList in order.        *)
C7_AnnounceFromField ==
  (Encoded /\ Has(Val(parsed).announceList)) =>
    LET m == Val(parsed)
        tiers == Val(m.announceList)
        field == Val(m.announce)
    IN /\ (field # <<>> /\ field[1] # "")
            => Val(out).announce = Some(NewBuffer(field[1]))
       /\ (field = <<>>) => Val(out).announce = FirstWalked(tiers)
       /\ (field = Flatten(tiers)) => Val(out).announce = FirstWalked(tiers)
       /\ Has(Val(out).announceList)
       /\ SameTiers(Val(Val(out).announceList), tiers)

C7_Witness ==
  /\ Encoded
  /\ Val(Val(parsed).announce) # <<>>
  /\ Flatten(Val(Val(parsed).announceList)) # <<>>
  /\ Val(Val(parsed).announce)[1] # Flatten(Val(Val(parsed).announceList))[1]
  /\ Val(out).announce = Some(NewBuffer(Val(Val(parsed).announce)[1]))

(* C8: when the pieces buffer holds a multiple of 20 bytes, under every    *)
(* declared encoding, pieces has one entry per 20 bytes, entry i being the *)
(* i-th 20-byte slice of the buffer.                                       *)
C8_PieceCount ==
  (Decoded /\ Len(Val(Val(torrent.info).pieces)) % HashLen = 0) =>
    LET bytes == Val(Val(torrent.info).pieces)
        m == Val(parsed)
        n == Len(bytes) \div HashLen
    IN /\ Len(m.pieces) = n
       /\ \A i \in 1..n :
            m.pieces[i] =
              BufferToString(SubSeq(bytes, (i - 1) * HashLen + 1, i * HashLen),
                             NormalizeEncoding(Val(m.encoding)))

\* the first call on the input was decode or encode and it is over
FirstCallOver == FirstCallDone \/ FirstEncodeDone

Rejected ==
  /\ pc = "failed"
  /\ IsMissingField(err)
  /\ parsed = Undefined
  /\ out = Undefined

EmptyName(info) == info.name = Some(Buf(""))
EmptyPath(info) ==
  Has(info.files) /\ \E i \in 1..Len(Val(info.files)) :
                        Val(info.files)[i].path = Some(<<>>)
AbsentPath(info) ==
  Has(info.files) /\ \E i \in 1..Len(Val(info.files)) :
                        ~Has(Val(info.files)[i].path)
NoNumberLength(info) ==
  Has(info.files) /\ \E i \in 1..Len(Val(info.files)) :
                        ~IsNumber(Val(info.files)[i].length)

(* C9 as stated: decode and encode reject with the missing-field error     *)
(* every dictionary whose info.name is an empty byte-string and every      *)
(* multi-file dictionary with an entry whose path is an empty list or      *)
(* whose length is no number.  (The TypeError of an empty info.files, see  *)
(* C2, is not held against this statement.)                                *)
C9_RejectsEmpty ==
  (FirstCallOver /\ Has(torrent.info)
   /\ (EmptyName(Val(torrent.info)) \/ EmptyPath(Val(torrent.info))
       \/ NoNumberLength(Val(torrent.info))))
    => /\ pc = "failed"
       /\ err # TypeError => IsMissingField(err)
       /\ parsed = Undefined
       /\ out = Undefined

(* C9 amended: decode and encode reject with the missing-field error every *)
(* dictionary whose info.name is absent and every multi-file dictionary    *)
(* with an entry whose path is absent or whose length is no number; an     *)
(* info.name or a path that is present, empty or not, is never the field   *)
(* reported missing.                                                       *)
C9_RejectsAbsent ==
  (FirstCallOver /\ Has(torrent.info)) =>
    LET info == Val(torrent.info)
    IN /\ (~Has(info.name) \/ AbsentPath(info) \/ NoNumberLength(info))
            => Rejected
       /\ Has(info.name) => err # MissingPrefix \o "info.name"
       /\ ~AbsentPath(info) => err # MissingPrefix \o "info.files[0].path"

C9_Witness ==
  /\ FirstCallOver
  /\ Has(torrent.info)
  /\ Has(Val(torrent.info).name)
  /\ TruthyNumber(Val(torrent.info).pieceLength)
  /\ Has(Val(torrent.info).pieces)
  /\ AbsentPath(Val(torrent.info))
  /\ ~NoNumberLength(Val(torrent.info))
  /\ Rejected

\* a whole number of seconds as (high, low) 16-bit halves
Halves(n) == <<n \div 65536, n % 65536>>

(* C10: the encoded 'creation date' is the floor of created in epoch       *)
(* seconds, before the epoch and from 2^31 seconds on as well; an absent   *)
(* created is set to the current time, so a second encode writes the same  *)
(* creation date.                                                          *)
C10_CreationDateFloor ==
  Encoded =>
    /\ Has(Val(parsed).created)
    /\ Halves(Val(Val(out).creationDate))
         = <<Val(Val(parsed).created).hi, Val(Val(parsed).created).lo>>

====
